---- MODULE Spec2Model ----
(***************************************************************************)
(* City2TABULA validation engine (src/validation/modules).                 *)
(*                                                                         *)
(* Tables (pandas DataFrames) are records [columns, rows]: columns is the  *)
(* set of column names, rows the sequence of row records.  Numbers are     *)
(* integers; a percent error is an exact fraction or NaN.  Each            *)
(* specification draws the arguments of one call in its initial state and  *)
(* applies the call in one step.                                           *)
(***************************************************************************)
EXTENDS Integers, Sequences, FiniteSets, TLC

VARIABLES
    op,                 \* the call that produced the current state ("none" at start)
    df,                 \* compute_errors: the table it is given and rewrites in place
    attribute,          \* compute_errors: its attribute argument
    calc_df,            \* validators: the calculated table
    thematic_df,        \* validators: the normalized reference table
    attribute_mapping,  \* validators: mapping argument, a dict in insertion order
    surface_type,       \* validate_surface_attributes: the subtype argument
    validation_df,      \* the validator's result, check_tolerance's input
    raised,             \* exception that ended the call, "none" when it returned
    warnings,           \* the warnings the call printed
    config,             \* check_tolerance: configuration dictionary
    tolerance_type,     \* check_tolerance: 'abs' or 'percent'
    result_df,          \* check_tolerance: the table it returns
    args,               \* the other arguments of the call, by parameter name
    returned,           \* the value a metric, export or loader call returned
    output_file,        \* export_problematic_surfaces: the file at output_path
    property            \* the loaders: rows of the citydb property table

vars == <<op, df, attribute, calc_df, thematic_df, attribute_mapping, surface_type,
          validation_df, raised, warnings, config, tolerance_type, result_df,
          args, returned, output_file, property>>

errVars == <<df, attribute>>
valVars == <<calc_df, thematic_df, attribute_mapping, surface_type, validation_df,
             raised, warnings>>
tolVars == <<config, tolerance_type, result_df>>
callVars == <<args, returned, output_file, property>>

\* None
None == "None"
\* a path at which no file exists
NoFile == [exists |-> FALSE, header |-> {}, lines |-> <<>>]
\* no call of the metric, export or loader functions has been made
NoCall == args = <<>> /\ returned = None /\ output_file = NoFile /\ property = {}

(***************************************************************************)
(* Bounds of the model.                                                    *)
(***************************************************************************)
\* rows of the table given to compute_errors
MaxDfRows == 2
\* rows of the calculated and of the reference table together
MaxRows == 3
\* rows of the validation table given to check_tolerance
MaxTolRows == 2
\* entity identities
MaxId == 2
\* rows of the validation table given to calculate_r_squared
MaxR2Rows == 4
\* rows of the validation table given to get_outliers
MaxOutlierRows == 5
\* rows of the validation table given to export_problematic_surfaces
MaxExportRows == 2
\* rows of the property table
MaxPropertyRows == 2
\* rows of the validation table given to get_validation_summary
MaxSummaryRows == 3
\* rows of each table of a validation run whose row order varies
MaxOrderRows == 2
\* rows of each table of a validation run whose records are passed on
MaxPipelineRows == 1

(***************************************************************************)
(* Numbers.                                                                *)
(***************************************************************************)
Abs(x) == IF x < 0 THEN -x ELSE x

\* eps = 1e-6, in millionths
EpsMicro == 1

\* A percent error is np.nan or the float num / (den + micro * 1e-6); den = 0 with
\* micro = 0 is numpy's +-inf, never an exception.
NaN == [nan |-> TRUE, num |-> 0, den |-> 1, micro |-> 0]
Frac(n, d, m) == [nan |-> FALSE, num |-> n, den |-> d, micro |-> m]
\* equality of two percent errors as numbers: a.num * (b.den + b.micro * 1e-6) =
\* b.num * (a.den + a.micro * 1e-6), exact while the products stay below 10^6
FracEq(a, b) ==
    /\ a.nan = b.nan
    /\ ~a.nan => /\ a.num * b.den = b.num * a.den
                 /\ a.num * b.micro = b.num * a.micro
IsFinite(a) == ~a.nan /\ (a.den # 0 \/ a.micro # 0)

(***************************************************************************)
(* plots.compute_errors                                                    *)
(***************************************************************************)
HeightNamesWithTilt == {"min_height", "max_height", "height", "tilt"}
HeightNames == {"min_height", "max_height", "height"}
AreaNames == {"surface_area", "area", "footprint_area"}

\* (difference / (thematic + eps)) * 100
EpsPercentError(difference, thematic) ==
    Frac(difference * 100, thematic, EpsMicro)

AzimuthDistanceNoWrap(calc, thematic) == Abs(calc - thematic) % 360
\* raw = np.abs(calc - thematic) % 360; circ = np.where(raw > 180, 360 - raw, raw)
AzimuthDistance(calc, thematic) ==
    LET raw == Abs(calc - thematic) % 360
    IN  IF raw > 180 THEN 360 - raw ELSE raw

\* what compute_errors writes into the difference and percent_error cells of one row
ComputeErrorsRow(row, attr) ==
    LET thematic == row.thematic_value
        calc == row.calculated_value
    IN  IF attr \in HeightNames
        THEN [row EXCEPT !.difference = calc - thematic,
                         !.percent_error = EpsPercentError(calc - thematic, thematic)]
        ELSE IF attr \in AreaNames
        THEN [row EXCEPT !.difference = calc - thematic,
                         !.percent_error = EpsPercentError(calc - thematic, thematic)]
        ELSE IF attr = "tilt"
        THEN [row EXCEPT !.difference = calc - thematic, !.percent_error = NaN]
        ELSE IF attr = "azimuth"
        THEN [row EXCEPT !.difference = AzimuthDistance(calc, thematic),
                         !.percent_error = NaN]
        ELSE [row EXCEPT !.difference = calc - thematic, !.percent_error = NaN]

(***************************************************************************)
(* Data frames.                                                            *)
(***************************************************************************)
\* pd.DataFrame()
EmptyFrame == [columns |-> {}, rows |-> <<>>]
IsEmptyNever(frame) == FALSE
\* DataFrame.empty: some axis has length 0
IsEmpty(frame) == frame.columns = {} \/ Len(frame.rows) = 0

RECURSIVE Concat(_)
\* pd.concat(frames, ignore_index=True) on the row sequences
Concat(seqs) == IF seqs = <<>> THEN <<>> ELSE Head(seqs) \o Concat(Tail(seqs))

\* left.merge(right, left_on=key, right_on='feature_id', how='inner'): every pair
\* of a left row and a right row with equal keys, in the order of the left rows
\* and, for one left row, of the right rows
InnerMerge(left, right, key) ==
    Concat([i \in 1..Len(left) |->
        LET hits == SelectSeq(right, LAMBDA r : r.feature_id = left[i][key])
        IN  [j \in 1..Len(hits) |-> [l |-> left[i], r |-> hits[j]]]])

Warn(kind, column) == [kind |-> kind, column |-> column]

(***************************************************************************)
(* validators.validate_building_attributes                                 *)
(***************************************************************************)
\* np.where(thematic != 0, (difference / thematic) * 100, np.nan)
PercentError(difference, thematic) ==
    IF thematic # 0 THEN Frac(difference * 100, thematic, 0) ELSE NaN

BuildingColumns == {"building_feature_id", "attribute_name", "calculated_value",
                    "thematic_value", "difference", "percent_error"}

\* one merged row of the building validator with its error columns
BuildingRecord(m, computed_column) ==
    LET calc == m.l.cells[computed_column]
        thematic == m.r.thematic_value
    IN  [building_feature_id |-> m.l.building_feature_id,
         attribute_name |-> computed_column,
         calculated_value |-> calc,
         thematic_value |-> thematic,
         difference |-> calc - thematic,
         percent_error |-> PercentError(calc - thematic, thematic)]

\* state of the loop over attribute_mapping.items(): the frames appended to
\* results, the warnings printed, the exception raised
LoopStart == [results |-> <<>>, warnings |-> {}, raised |-> "none"]

RECURSIVE BuildingLoop(_, _, _, _)
BuildingLoop(calc, thematic, mapping, acc) ==
    IF mapping = <<>> \/ acc.raised # "none" THEN acc
    ELSE
      LET computed_column == Head(mapping).computed_column
          source_label == Head(mapping).source_label
          attr_thematic == SelectSeq(thematic.rows,
                               LAMBDA r : r.attribute_name = computed_column)
          rest == Tail(mapping)
      IN  IF source_label = "" THEN BuildingLoop(calc, thematic, rest, acc)
          ELSE IF attr_thematic = <<>>
          THEN BuildingLoop(calc, thematic, rest,
                   [acc EXCEPT !.warnings = @ \cup {Warn("no_thematic", computed_column)}])
          ELSE IF computed_column \notin calc.columns
          \* building_calc_df[['building_feature_id', computed_column]]
          THEN [acc EXCEPT !.raised = "KeyError"]
          ELSE LET merged == InnerMerge(calc.rows, attr_thematic, "building_feature_id")
                   frame == [i \in 1..Len(merged) |->
                                BuildingRecord(merged[i], computed_column)]
               IN  BuildingLoop(calc, thematic, rest,
                       [acc EXCEPT !.results = Append(@, frame)])

\* [validation_df, warnings, raised] of one call
ValidateBuilding(calc, thematic, mapping) ==
    IF IsEmpty(calc) \/ IsEmpty(thematic)
    THEN [validation_df |-> EmptyFrame, warnings |-> {Warn("empty_input", "")},
          raised |-> "none"]
    ELSE LET acc == BuildingLoop(calc, thematic, mapping, LoopStart)
         IN  IF acc.raised # "none"
             THEN [validation_df |-> EmptyFrame, warnings |-> acc.warnings,
                   raised |-> acc.raised]
             ELSE IF acc.results = <<>>
             THEN [validation_df |-> EmptyFrame,
                   warnings |-> acc.warnings \cup {Warn("no_results", "")},
                   raised |-> "none"]
             ELSE [validation_df |-> [columns |-> BuildingColumns,
                                      rows |-> Concat(acc.results)],
                   warnings |-> acc.warnings, raised |-> "none"]

(***************************************************************************)
(* validators.validate_surface_attributes                                  *)
(***************************************************************************)
\* base_cols, with geom when the calculated table has it
SurfaceBaseCols(calc) ==
    {"surface_feature_id", "building_feature_id", "classname"}
        \cup ({"geom"} \cap calc.columns)

SurfaceColumns(calc) ==
    SurfaceBaseCols(calc) \cup {"attribute_name", "calculated_value", "thematic_value",
                                "difference", "percent_error"}

\* merged[(merged[computed_column] != -1) & (merged['thematic_value'] != -1)]
AzimuthDefined(m, computed_column) ==
    m.l.cells[computed_column] # -1 /\ m.r.thematic_value # -1

\* one merged row of the surface validator with its error columns; the geometry
\* cell is carried through untouched and is not represented
SurfaceRecord(m, computed_column) ==
    LET calc == m.l.cells[computed_column]
        thematic == m.r.thematic_value
    IN  [surface_feature_id |-> m.l.surface_feature_id,
         building_feature_id |-> m.l.building_feature_id,
         classname |-> m.l.classname,
         attribute_name |-> computed_column,
         calculated_value |-> calc,
         thematic_value |-> thematic,
         difference |-> calc - thematic,
         percent_error |-> PercentError(calc - thematic, thematic)]

RECURSIVE SurfaceLoop(_, _, _, _)
\* filtered: the calculated table restricted to the requested subtype
SurfaceLoop(filtered, thematic, mapping, acc) ==
    IF mapping = <<>> THEN acc
    ELSE
      LET computed_column == Head(mapping).computed_column
          source_label == Head(mapping).source_label
          attr_thematic == SelectSeq(thematic.rows,
                               LAMBDA r : r.attribute_name = computed_column)
          rest == Tail(mapping)
      IN  IF source_label = "" THEN SurfaceLoop(filtered, thematic, rest, acc)
          ELSE IF computed_column \notin filtered.columns
          THEN SurfaceLoop(filtered, thematic, rest,
                   [acc EXCEPT !.warnings = @ \cup {Warn("column_missing", computed_column)}])
          ELSE IF attr_thematic = <<>>
          THEN SurfaceLoop(filtered, thematic, rest,
                   [acc EXCEPT !.warnings = @ \cup {Warn("no_thematic", computed_column)}])
          ELSE LET joined == InnerMerge(filtered.rows, attr_thematic, "surface_feature_id")
                   merged == IF computed_column = "azimuth"
                             THEN SelectSeq(joined,
                                      LAMBDA m : AzimuthDefined(m, computed_column))
                             ELSE joined
                   excluded == IF Len(joined) - Len(merged) > 0
                               THEN {Warn("azimuth_excluded", computed_column)}
                               ELSE {}
                   frame == [i \in 1..Len(merged) |->
                                SurfaceRecord(merged[i], computed_column)]
               IN  SurfaceLoop(filtered, thematic, rest,
                       [acc EXCEPT !.results = Append(@, frame),
                                   !.warnings = @ \cup excluded])

OfAnySubtype(row, stype) == TRUE
\* surface_calc_df['classname'] == surface_type
OfSubtype(row, stype) == row.classname = stype

\* [validation_df, warnings, raised] of one call
ValidateSurface(calc, thematic, mapping, stype) ==
    IF IsEmpty(calc) \/ IsEmpty(thematic)
    THEN [validation_df |-> EmptyFrame, warnings |-> {Warn("empty_input", "")},
          raised |-> "none"]
    ELSE LET filtered_calc == [calc EXCEPT !.rows =
                                  SelectSeq(@, LAMBDA r : OfSubtype(r, stype))]
         IN  IF IsEmpty(filtered_calc)
             THEN [validation_df |-> EmptyFrame,
                   warnings |-> {Warn("no_surfaces", "")}, raised |-> "none"]
             ELSE LET acc == SurfaceLoop(filtered_calc, thematic, mapping, LoopStart)
                  IN  IF acc.results = <<>>
                      THEN [validation_df |-> EmptyFrame,
                            warnings |-> acc.warnings \cup {Warn("no_results", "")},
                            raised |-> "none"]
                      ELSE [validation_df |-> [columns |-> SurfaceColumns(calc),
                                               rows |-> Concat(acc.results)],
                            warnings |-> acc.warnings, raised |-> "none"]

(***************************************************************************)
(* metrics.check_tolerance                                                 *)
(***************************************************************************)
\* a dict with no entries
EmptyDict == [k \in {} |-> 0]

\* config.get('validation', {}).get('tolerance', {}).get(tolerance_type, {}); a
\* configuration without the validation or the tolerance section reads as one that
\* configures no kind
Tolerances(cfg, kind) ==
    IF kind \in DOMAIN cfg.tolerance THEN cfg.tolerance[kind] ELSE EmptyDict

ToleranceKeyOwnName(attr_name) == attr_name
\* the key a record's threshold is looked up under
ToleranceKey(attr_name) ==
    IF attr_name \in {"surface_area"} THEN "surface_area"
    ELSE IF attr_name \in {"min_height", "max_height"} THEN "height"
    ELSE attr_name

\* abs(percent_error) <= threshold on floats: a comparison with nan is False, inf
\* exceeds every threshold; the percent errors the validators compute have micro = 0
PercentWithin(percent_error, threshold) ==
    IF percent_error.nan THEN FALSE
    ELSE IF percent_error.den = 0 /\ percent_error.micro = 0
    THEN FALSE
    ELSE IF percent_error.den >= 0
    THEN Abs(percent_error.num) <= threshold * percent_error.den
    ELSE IF percent_error.micro = 0
    THEN Abs(percent_error.num) <= threshold * (-percent_error.den)
    ELSE Abs(percent_error.num) < threshold * (-percent_error.den)

IsWithinToleranceStrict(row, tolerances, kind) ==
    LET tolerance_key == ToleranceKey(row.attribute_name)
    IN  IF tolerance_key \notin DOMAIN tolerances THEN "None"
        ELSE IF kind = "abs"
        THEN IF Abs(row.difference) < tolerances[tolerance_key] THEN "True" ELSE "False"
        ELSE IF PercentWithin(row.percent_error, tolerances[tolerance_key])
             THEN "True" ELSE "False"
\* is_within_tolerance(row): "True", "False" or "None"
IsWithinTolerance(row, tolerances, kind) ==
    LET tolerance_key == ToleranceKey(row.attribute_name)
    IN  IF tolerance_key \notin DOMAIN tolerances THEN "None"
        ELSE IF kind = "abs"
        THEN IF Abs(row.difference) <= tolerances[tolerance_key] THEN "True" ELSE "False"
        ELSE IF PercentWithin(row.percent_error, tolerances[tolerance_key])
             THEN "True" ELSE "False"

WithTolerance(row, verdict) ==
    [f \in DOMAIN row \cup {"within_tolerance"} |->
        IF f = "within_tolerance" THEN verdict ELSE row[f]]

\* the table check_tolerance returns
CheckTolerance(validation, cfg, kind) ==
    IF IsEmpty(validation) THEN validation
    ELSE LET tolerances == Tolerances(cfg, kind)
         IN  IF DOMAIN tolerances = {} THEN validation
             ELSE [columns |-> validation.columns \cup {"within_tolerance"},
                   rows |-> [i \in 1..Len(validation.rows) |->
                               WithTolerance(validation.rows[i],
                                   IsWithinTolerance(validation.rows[i], tolerances, kind))]]

CheckToleranceInPlace(validation, cfg, kind) ==
    [result_df |-> CheckTolerance(validation, cfg, kind),
     validation_df |-> CheckTolerance(validation, cfg, kind)]
\* one call of check_tolerance: the table it returns and the table its argument
\* holds afterwards; the within_tolerance column is assigned into
\* validation_df.copy(), an object of its own, so the argument keeps its value
CheckToleranceCall(validation, cfg, kind) ==
    [result_df |-> CheckTolerance(validation, cfg, kind),
     validation_df |-> validation]

(***************************************************************************)
(* metrics.calculate_r_squared                                             *)
(***************************************************************************)
RECURSIVE SumSeq(_)
SumSeq(s) == IF s = <<>> THEN 0 ELSE Head(s) + SumSeq(Tail(s))

\* validation_df[validation_df['attribute_name'] == attribute_name]
OfAttribute(validation, attribute_name) ==
    [columns |-> validation.columns,
     rows |-> SelectSeq(validation.rows, LAMBDA row : row.attribute_name = attribute_name)]

\* a coefficient is null (None, or NaN in a pandas Series) or the float num / den
NullR2 == [null |-> TRUE, num |-> 0, den |-> 1]

\* ((calculated - thematic) ** 2).sum()
SsRes(rows) ==
    SumSeq([i \in 1..Len(rows) |->
               (rows[i].calculated_value - rows[i].thematic_value)
                   * (rows[i].calculated_value - rows[i].thematic_value)])
\* ((thematic - thematic.mean()) ** 2).sum() as the fraction num / den: with n rows
\* of sum s, thematic - mean is (n * thematic - s) / n
SsTot(rows) ==
    LET n == Len(rows)
        s == SumSeq([i \in 1..n |-> rows[i].thematic_value])
    IN  [num |-> SumSeq([i \in 1..n |-> (n * rows[i].thematic_value - s)
                                           * (n * rows[i].thematic_value - s)]),
         den |-> n * n]

R2ScoreNoZeroCheck(rows) ==
    IF Len(rows) < 2 THEN NullR2
    ELSE LET ss_res == SsRes(rows)
             ss_tot == SsTot(rows)
         IN  [null |-> FALSE, num |-> ss_tot.num - ss_res * ss_tot.den,
              den |-> ss_tot.num]
\* r2_score(df): 1 - ss_res / ss_tot
R2Score(rows) ==
    IF Len(rows) < 2 THEN NullR2
    ELSE LET ss_res == SsRes(rows)
             ss_tot == SsTot(rows)
         IN  IF ss_tot.num = 0 THEN NullR2
             ELSE [null |-> FALSE, num |-> ss_tot.num - ss_res * ss_tot.den,
                   den |-> ss_tot.num]

\* the group keys of groupby('attribute_name')
AttributeNames(validation) ==
    {validation.rows[i].attribute_name : i \in 1..Len(validation.rows)}

\* groupby('attribute_name').apply(r2_score).to_dict(): pandas builds a Series of the
\* groups' results, with NaN for a None among numbers; when every result is None it
\* builds an empty frame, whose to_dict() is {}
R2ByAttribute(validation) ==
    LET names == AttributeNames(validation)
        score(a) == R2Score(OfAttribute(validation, a).rows)
    IN  IF \A a \in names : score(a).null THEN EmptyDict
        ELSE [a \in names |-> score(a)]

\* what calculate_r_squared returns: a coefficient, or a dict of them when
\* attribute_name is None or ''
CalculateRSquared(validation, attribute_name) ==
    IF IsEmpty(validation) THEN NullR2
    ELSE IF attribute_name \notin {None, ""}
    THEN LET selected == OfAttribute(validation, attribute_name)
         IN  IF IsEmpty(selected) THEN NullR2 ELSE R2Score(selected.rows)
    ELSE R2ByAttribute(validation)

(***************************************************************************)
(* metrics.get_outliers                                                    *)
(***************************************************************************)
RECURSIVE Insert(_, _)
Insert(x, sorted) ==
    IF sorted = <<>> THEN <<x>>
    ELSE IF x <= Head(sorted) THEN <<x>> \o sorted
    ELSE <<Head(sorted)>> \o Insert(x, Tail(sorted))
RECURSIVE Sorted(_)
\* the values in ascending order
Sorted(values) == IF values = <<>> THEN <<>> ELSE Insert(Head(values), Sorted(Tail(values)))

\* df['difference']
Differences(frame) == [i \in 1..Len(frame.rows) |-> frame.rows[i].difference]

\* 4 * Series.quantile(quarters / 4) of a series with values: pandas interpolates
\* linearly between the two order statistics around position q * (n - 1)
Quantile(values, quarters) ==
    LET position == quarters * (Len(values) - 1)
        below == position \div 4 + 1
        part == position % 4
    IN  IF part = 0 THEN Sorted(values)[below] * 4
        ELSE Sorted(values)[below] * (4 - part) + Sorted(values)[below + 1] * part

IqrOutlierInclusive(difference, values, threshold) ==
    /\ values # <<>>
    /\ LET Q1 == Quantile(values, 1)
           Q3 == Quantile(values, 3)
           IQR == Q3 - Q1
       IN  \/ 4 * difference <= Q1 - threshold * IQR
           \/ 4 * difference >= Q3 + threshold * IQR
\* (difference < lower_bound) | (difference > upper_bound), all terms times 4; the
\* quantiles of an empty series are NaN and every comparison with them is False
IqrOutlier(difference, values, threshold) ==
    /\ values # <<>>
    /\ LET Q1 == Quantile(values, 1)
           Q3 == Quantile(values, 3)
           IQR == Q3 - Q1
       IN  \/ 4 * difference < Q1 - threshold * IQR
           \/ 4 * difference > Q3 + threshold * IQR

\* abs((difference - mean) / std) > threshold with the sample standard deviation
\* (ddof = 1): std is NaN for one value, and 0 for equal values, which makes every
\* z-score 0 / 0 = NaN; otherwise the comparison is that of the squares,
\* (n * difference - sum)^2 * (n - 1) > threshold^2 * n * (n * sum(x^2) - sum^2)
ZscoreOutlier(difference, values, threshold) ==
    LET n == Len(values)
        sum == SumSeq(values)
        squares == SumSeq([i \in 1..n |-> values[i] * values[i]])
    IN  /\ n >= 2
        /\ n * squares - sum * sum > 0
        /\ (n * difference - sum) * (n * difference - sum) * (n - 1)
              > threshold * threshold * n * (n * squares - sum * sum)

\* what get_outliers returns or raises
GetOutliers(validation, attribute_name, method, threshold) ==
    IF IsEmpty(validation) THEN [returned |-> validation, raised |-> "none"]
    ELSE LET selected == IF attribute_name \notin {None, ""}
                         THEN OfAttribute(validation, attribute_name)
                         ELSE validation
             values == Differences(selected)
         IN  IF method = "iqr"
             THEN [returned |-> [selected EXCEPT !.rows = SelectSeq(selected.rows,
                                    LAMBDA row : IqrOutlier(row.difference, values, threshold))],
                   raised |-> "none"]
             ELSE IF method = "zscore"
             THEN [returned |-> [selected EXCEPT !.rows = SelectSeq(selected.rows,
                                    LAMBDA row : ZscoreOutlier(row.difference, values, threshold))],
                   raised |-> "none"]
             ELSE [returned |-> None, raised |-> "ValueError"]

(***************************************************************************)
(* validators.export_problematic_surfaces                                  *)
(***************************************************************************)
\* the absolute difference above which a record is exported whatever its percent error
FlipDifference == 170

\* abs(percent_error) > error_threshold on floats: a comparison with nan is False,
\* inf exceeds every threshold
PercentExceeds(percent_error, error_threshold) ==
    IF percent_error.nan THEN FALSE
    ELSE IF percent_error.den = 0 /\ percent_error.micro = 0
    THEN TRUE
    ELSE IF percent_error.den >= 0
    THEN Abs(percent_error.num) > error_threshold * percent_error.den
    ELSE IF percent_error.micro = 0
    THEN Abs(percent_error.num) > error_threshold * (-percent_error.den)
    ELSE Abs(percent_error.num) >= error_threshold * (-percent_error.den)

ProblematicPercentOnly(row, error_threshold) ==
    PercentExceeds(row.percent_error, error_threshold)
\* the row filter of the export
Problematic(row, error_threshold) ==
    \/ PercentExceeds(row.percent_error, error_threshold)
    \/ Abs(row.difference) > FlipDifference

\* a row as to_csv writes it: a NaN is written as the empty field
CsvRow(row) ==
    [f \in DOMAIN row |->
        IF f = "percent_error" /\ row[f].nan THEN "" ELSE row[f]]
\* the file to_csv(output_path, index=False) writes: header and one line per row
ToCsv(frame) ==
    [exists |-> TRUE, header |-> frame.columns,
     lines |-> [i \in 1..Len(frame.rows) |-> CsvRow(frame.rows[i])]]

ExportAlwaysWrites(validation, file, error_threshold) ==
    IF IsEmpty(validation)
    THEN [returned |-> EmptyFrame, output_file |-> ToCsv(validation), raised |-> "none"]
    ELSE LET problematic ==
                 [validation EXCEPT !.rows = SelectSeq(validation.rows,
                                      LAMBDA row : Problematic(row, error_threshold))]
         IN  IF IsEmpty(problematic)
             THEN [returned |-> EmptyFrame, output_file |-> ToCsv(problematic),
                   raised |-> "none"]
             ELSE IF "surface_feature_id" \notin problematic.columns
             THEN [returned |-> None, output_file |-> ToCsv(problematic),
                   raised |-> "KeyError"]
             ELSE [returned |-> problematic, output_file |-> ToCsv(problematic),
                   raised |-> "none"]
\* what export_problematic_surfaces returns, the file it leaves at output_path and
\* the exception of the surface count when the table has no surface_feature_id
ExportProblematicSurfaces(validation, file, error_threshold) ==
    IF IsEmpty(validation)
    THEN [returned |-> EmptyFrame, output_file |-> file, raised |-> "none"]
    ELSE LET problematic ==
                 [validation EXCEPT !.rows = SelectSeq(validation.rows,
                                      LAMBDA row : Problematic(row, error_threshold))]
         IN  IF IsEmpty(problematic)
             THEN [returned |-> EmptyFrame, output_file |-> file, raised |-> "none"]
             ELSE IF "surface_feature_id" \notin problematic.columns
             THEN [returned |-> None, output_file |-> ToCsv(problematic),
                   raised |-> "KeyError"]
             ELSE [returned |-> problematic, output_file |-> ToCsv(problematic),
                   raised |-> "none"]

(***************************************************************************)
(* config.get_building_attribute_mapping, get_surface_attribute_mapping    *)
(*                                                                         *)
(* A dict whose order matters (the attributes of a level, a mapping) is a  *)
(* sequence of entries in insertion order.                                 *)
(***************************************************************************)
\* d.get(key, default)
Get(d, key, default) == IF key \in DOMAIN d THEN d[key] ELSE default

\* mapping[key] = value: an existing key keeps its place and takes the value
SetItem(mapping, key, value) ==
    IF \E i \in 1..Len(mapping) : mapping[i].computed_column = key
    THEN [i \in 1..Len(mapping) |->
             IF mapping[i].computed_column = key
             THEN [computed_column |-> key, source_label |-> value] ELSE mapping[i]]
    ELSE Append(mapping, [computed_column |-> key, source_label |-> value])

\* attr_config.get('source_label', '')
SourceLabel(attr_config) == Get(attr_config, "source_label", "")

HasSourceLabelAlways(attr_config) == TRUE
\* the source label is truthy
HasSourceLabel(attr_config) == SourceLabel(attr_config) \notin {"", None}

RECURSIVE SetItems(_, _, _)
\* for computed_col in computed_columns: mapping[computed_col] = source_label
SetItems(mapping, computed_columns, source_label) ==
    IF computed_columns = <<>> THEN mapping
    ELSE SetItems(SetItem(mapping, Head(computed_columns), source_label),
                  Tail(computed_columns), source_label)

RECURSIVE BuildingMappingLoop(_, _)
\* the loop over parent_attrs.items()
BuildingMappingLoop(attrs, mapping) ==
    IF attrs = <<>> THEN mapping
    ELSE LET attr_config == Head(attrs).config
         IN  IF ~HasSourceLabel(attr_config)
             THEN BuildingMappingLoop(Tail(attrs), mapping)
             ELSE IF "computed_columns" \in DOMAIN attr_config
             THEN BuildingMappingLoop(Tail(attrs),
                      SetItems(mapping, attr_config.computed_columns,
                               SourceLabel(attr_config)))
             ELSE IF "computed_column" \in DOMAIN attr_config
             THEN BuildingMappingLoop(Tail(attrs),
                      SetItem(mapping, attr_config.computed_column,
                              SourceLabel(attr_config)))
             ELSE BuildingMappingLoop(Tail(attrs), mapping)

GetBuildingAttributeMapping(cfg) ==
    BuildingMappingLoop(Get(Get(cfg, "attributes", <<>>), "parent", <<>>), <<>>)

RECURSIVE SurfaceMappingComprehension(_, _)
\* {attr_config.get('computed_column'): attr_config.get('source_label', '')
\*  for ... in child_attrs.items() if attr_config.get('source_label', '')}
SurfaceMappingComprehension(attrs, mapping) ==
    IF attrs = <<>> THEN mapping
    ELSE LET attr_config == Head(attrs).config
         IN  IF HasSourceLabel(attr_config)
             THEN SurfaceMappingComprehension(Tail(attrs),
                      SetItem(mapping, Get(attr_config, "computed_column", None),
                              SourceLabel(attr_config)))
             ELSE SurfaceMappingComprehension(Tail(attrs), mapping)

GetSurfaceAttributeMapping(cfg, kind) ==
    SurfaceMappingComprehension(
        Get(Get(Get(cfg, "attributes", <<>>), "child", <<>>), kind, <<>>), <<>>)

(***************************************************************************)
(* utils.load_thematic_building_data, load_thematic_surface_data           *)
(*                                                                         *)
(* A row of the property table is [feature_id, name, numeric, value]:      *)
(* numeric says that val_double is set or val_string is a number, value is *)
(* that number.                                                            *)
(***************************************************************************)
ThematicFrameColumns == {"feature_id", "attribute_name", "thematic_value"}

\* [label for label in attribute_mapping.values() if label]
SourceLabels(mapping) ==
    {mapping[i].source_label : i \in {j \in 1..Len(mapping) : mapping[j].source_label # ""}}

\* the rows the WHERE clause selects
Selected(table, feature_ids, source_labels) ==
    {p \in table : /\ \E i \in 1..Len(feature_ids) : feature_ids[i] = p.feature_id
                   /\ p.name \in source_labels
                   /\ p.numeric}

\* the collation order of the property names
NameOrder == <<"Dachneigung", "Flaeche", "other", "value">>
NameRank(name) == CHOOSE i \in 1..Len(NameOrder) : NameOrder[i] = name

\* ORDER BY p.feature_id, p.name
Before(p, q) ==
    \/ p.feature_id < q.feature_id
    \/ p.feature_id = q.feature_id /\ NameRank(p.name) <= NameRank(q.name)

\* the tables pd.read_sql can return: the selected rows in an order the ORDER BY
\* allows (rows that agree on feature_id and name come in any order)
QueryResults(table, feature_ids, source_labels) ==
    LET rows == Selected(table, feature_ids, source_labels)
    IN  {s \in [1..Cardinality(rows) -> rows] :
            /\ \A i, j \in DOMAIN s : i # j => s[i] # s[j]
            /\ \A i, j \in DOMAIN s : i < j => Before(s[i], s[j])}

\* label_to_columns[source_label]: the computed columns of a label, in mapping order
LabelToColumns(mapping, source_label) ==
    LET entries == SelectSeq(mapping, LAMBDA e : e.source_label = source_label)
    IN  [i \in 1..Len(entries) |-> entries[i].computed_column]

\* the records one loaded row expands to
ExpandRow(row, computed_columns) ==
    [i \in 1..Len(computed_columns) |->
        [feature_id |-> row.feature_id, attribute_name |-> computed_columns[i],
         thematic_value |-> row.value]]

\* what load_thematic_building_data returns for a query result
NormalizeBuilding(loaded, mapping) ==
    LET expanded_rows ==
            Concat([i \in 1..Len(loaded) |->
                       ExpandRow(loaded[i], LabelToColumns(mapping, loaded[i].name))])
    IN  IF expanded_rows = <<>> THEN EmptyFrame
        ELSE [columns |-> ThematicFrameColumns, rows |-> expanded_rows]

\* label_to_column[source_label] of {v: k for k, v in attribute_mapping.items()}:
\* the last attribute of a label replaces the earlier ones
LabelToColumn(mapping, source_label) ==
    LET computed_columns == LabelToColumns(mapping, source_label)
    IN  computed_columns[Len(computed_columns)]

\* what load_thematic_surface_data returns for a query result
NormalizeSurface(loaded, mapping) ==
    [columns |-> ThematicFrameColumns,
     rows |-> [i \in 1..Len(loaded) |->
                 [feature_id |-> loaded[i].feature_id,
                  attribute_name |-> LabelToColumn(mapping, loaded[i].name),
                  thematic_value |-> loaded[i].value]]]

\* the loader returns before the query: no identities, no mapping or no source label
NothingToLoad(feature_ids, mapping) ==
    feature_ids = <<>> \/ mapping = <<>> \/ SourceLabels(mapping) = {}

(***************************************************************************)
(* config.get_surface_type_filter                                          *)
(***************************************************************************)
\* the classnames an attribute is validated for: a list, or None for all of them
GetSurfaceTypeFilter(attribute_name) ==
    IF attribute_name \in {"tilt", "azimuth"}
    THEN [all |-> FALSE, classnames |-> {"RoofSurface"}]
    ELSE [all |-> TRUE, classnames |-> {}]

(***************************************************************************)
(* validators.get_validation_summary                                       *)
(*                                                                         *)
(* A statistic is NaN, a number rounded to 4 decimals (held in             *)
(* ten-thousandths), or the rounded square root of a ratio (held as the    *)
(* ratio).                                                                 *)
(***************************************************************************)
RECURSIVE Gcd(_, _)
Gcd(a, b) == IF b = 0 THEN a ELSE Gcd(b, a % b)

\* the ratio num / den in lowest terms with a positive denominator
Ratio(num, den) ==
    LET g == Gcd(Abs(num), Abs(den))
        sign == IF den < 0 THEN -1 ELSE 1
    IN  [num |-> sign * (num \div g), den |-> sign * (den \div g)]
RAdd(a, b) == Ratio(a.num * b.den + b.num * a.den, a.den * b.den)
RSub(a, b) == Ratio(a.num * b.den - b.num * a.den, a.den * b.den)
RMul(a, b) == Ratio(a.num * b.num, a.den * b.den)
RLeq(a, b) == a.num * b.den <= b.num * a.den

RECURSIVE RSum(_)
RSum(ratios) == IF ratios = <<>> THEN Ratio(0, 1) ELSE RAdd(Head(ratios), RSum(Tail(ratios)))

RECURSIVE RInsert(_, _)
RInsert(x, sorted) ==
    IF sorted = <<>> THEN <<x>>
    ELSE IF RLeq(x, Head(sorted)) THEN <<x>> \o sorted
    ELSE <<Head(sorted)>> \o RInsert(x, Tail(sorted))
RECURSIVE RSorted(_)
RSorted(ratios) ==
    IF ratios = <<>> THEN <<>> ELSE RInsert(Head(ratios), RSorted(Tail(ratios)))

NaNStat == [kind |-> "nan"]
\* round(4) of a ratio, to the nearest ten-thousandth, a tie to the even one
Round4(r) ==
    LET scaled == r.num * 10000
        floor == scaled \div r.den
        twice == 2 * (scaled % r.den)
    IN  [kind |-> "number",
         ten_thousandths |->
             IF twice < r.den THEN floor
             ELSE IF twice > r.den THEN floor + 1
             ELSE IF floor % 2 = 0 THEN floor ELSE floor + 1]
\* round(4) of the square root of a ratio
RootStat(r) == [kind |-> "root", num |-> r.num, den |-> r.den]

CountAll(values) == Len(values) + 1
\* 'count': the number of values that are not null
Count(values) == Len(values)
\* 'mean' of the values that are not null
Mean(ratios) == RMul(RSum(ratios), Ratio(1, Len(ratios)))
\* 'std': the sample standard deviation, NaN for fewer than two values
Std(ratios) ==
    IF Len(ratios) < 2 THEN NaNStat
    ELSE LET n == Len(ratios)
             squares == RSum([i \in 1..n |-> RMul(ratios[i], ratios[i])])
             sum == RSum(ratios)
         IN  RootStat(RMul(RSub(RMul(Ratio(n, 1), squares), RMul(sum, sum)),
                           Ratio(1, n * (n - 1))))
\* np.sqrt((x ** 2).mean())
Rmse(ratios) ==
    RootStat(Mean([i \in 1..Len(ratios) |-> RMul(ratios[i], ratios[i])]))
\* 'median': the middle value, or the mean of the two middle values
Median(ratios) ==
    LET sorted == RSorted(ratios)
        n == Len(sorted)
    IN  IF n % 2 = 1 THEN sorted[(n + 1) \div 2]
        ELSE RMul(RAdd(sorted[n \div 2], sorted[n \div 2 + 1]), Ratio(1, 2))

\* the percent errors of a group that are not null, as ratios
PercentErrors(rows) ==
    LET present == SelectSeq(rows, LAMBDA row : ~row.percent_error.nan)
    IN  [i \in 1..Len(present) |->
            Ratio(present[i].percent_error.num, present[i].percent_error.den)]

SummaryColumns == {"attribute_name", "count", "mean_difference", "std_difference",
                   "rmse", "mean_percent_error", "median_percent_error",
                   "std_percent_error"}

\* the summary row of one group
SummaryRow(attribute_name, rows) ==
    LET differences == [i \in 1..Len(rows) |-> Ratio(rows[i].difference, 1)]
        percent_errors == PercentErrors(rows)
    IN  [attribute_name |-> attribute_name,
         count |-> Count(differences),
         mean_difference |-> Round4(Mean(differences)),
         std_difference |-> Std(differences),
         rmse |-> Rmse(differences),
         mean_percent_error |-> IF percent_errors = <<>> THEN NaNStat
                                ELSE Round4(Mean(percent_errors)),
         median_percent_error |-> IF percent_errors = <<>> THEN NaNStat
                                  ELSE Round4(Median(percent_errors)),
         std_percent_error |-> Std(percent_errors)]

\* the attribute names in the order groupby sorts its keys
AttributeOrder == <<"azimuth", "footprint_area", "max_height", "min_height",
                    "surface_area", "tilt">>

\* what get_validation_summary returns
GetValidationSummary(validation) ==
    IF IsEmpty(validation) THEN EmptyFrame
    ELSE LET keys == SelectSeq(AttributeOrder,
                         LAMBDA a : a \in AttributeNames(validation))
         IN  [columns |-> SummaryColumns,
              rows |-> [i \in 1..Len(keys) |->
                          SummaryRow(keys[i], OfAttribute(validation, keys[i]).rows)]]

(***************************************************************************)
(* Inputs.                                                                 *)
(***************************************************************************)
SeqsUpTo(S, n) == UNION {[1..k -> S] : k \in 0..n}

Ids == 1..MaxId
Classnames == {"RoofSurface", "WallSurface"}

Entry(computed_column, source_label) ==
    [computed_column |-> computed_column, source_label |-> source_label]

\* the attributes of a mapping that have a source label
Mapped(mapping) ==
    {mapping[i].computed_column : i \in {j \in 1..Len(mapping) : mapping[j].source_label # ""}}

\* building-level mappings (labels as in the docstrings)
BuildingMappings ==
    { <<Entry("footprint_area", "Flaeche"), Entry("min_height", "value")>>,
      <<Entry("footprint_area", "Flaeche")>>,
      <<Entry("min_height", "value")>>,
      <<Entry("footprint_area", ""), Entry("min_height", "value")>>,
      <<>> }
\* surface-level mappings
SurfaceMappings ==
    { <<Entry("surface_area", "Flaeche"), Entry("azimuth", "Dachorientierung")>>,
      <<Entry("tilt", "Dachneigung"), Entry("azimuth", "Dachorientierung")>>,
      <<Entry("surface_area", "Flaeche")>>,
      <<Entry("tilt", "Dachneigung")>>,
      <<Entry("azimuth", "Dachorientierung")>>,
      <<Entry("surface_area", ""), Entry("azimuth", "Dachorientierung")>>,
      <<>> }

BuildingIdColumns == {"building_feature_id"}
SurfaceIdColumns == {"surface_feature_id", "building_feature_id", "classname", "geom"}
ThematicColumns == {"feature_id", "attribute_name", "thematic_value"}

\* computed columns a calculated table can have: all of them, or one missing
BuildingComputed == {{"footprint_area", "min_height"}, {"min_height"}}
SurfaceComputed == {{"surface_area", "tilt", "azimuth"}, {"tilt", "azimuth"}}

\* the numbers a computed column holds (-1: azimuth undefined); a calculated row
\* is drawn as one of Variants, which picks the number of each of its columns
Variants == {1, 2}
CalcValue(column, variant) ==
    IF column = "azimuth" THEN (IF variant = 1 THEN -1 ELSE 350)
    ELSE IF column = "tilt" THEN (IF variant = 1 THEN 0 ELSE 30)
    ELSE (IF variant = 1 THEN 0 ELSE 12)
\* reference values an attribute can have
ThematicValues(attr) == IF attr = "azimuth" THEN {-1, 10} ELSE {0, 10}

BuildingCalcRows(computed) ==
    {[building_feature_id |-> id, cells |-> [c \in computed |-> CalcValue(c, v)]] :
        id \in Ids, v \in Variants}
SurfaceCalcRows(computed) ==
    {[surface_feature_id |-> id, building_feature_id |-> 1, classname |-> cn,
      cells |-> [c \in computed |-> CalcValue(c, v)]] :
        id \in Ids, cn \in Classnames, v \in Variants}
\* rows of the normalized reference table that the loaders build for a mapping
ThematicRows(mapping) ==
    UNION {{[feature_id |-> id, attribute_name |-> a, thematic_value |-> v] :
               id \in Ids, v \in ThematicValues(a)} : a \in Mapped(mapping)}

\* calculated tables hold one row per entity
OneRowPerEntity(rows, key) ==
    \A i, j \in 1..Len(rows) : rows[i][key] = rows[j][key] => i = j

\* the tables of one validation run, MaxRows rows at most between them
Tables(idColumns, computed, calcRows, key, mapping) ==
    {<<[columns |-> idColumns \cup computed, rows |-> ct[1]],
       [columns |-> ThematicColumns, rows |-> ct[2]]>> :
        ct \in UNION {{c \in [1..k -> calcRows] : OneRowPerEntity(c, key)}
                          \X SeqsUpTo(ThematicRows(mapping), MaxRows - k) :
                      k \in 0..MaxRows}}

\* the tables of one validation run with n rows at most in each, in any row order
TablesUpTo(idColumns, computed, calcRows, key, thematicRows, n) ==
    {<<[columns |-> idColumns \cup computed, rows |-> c],
       [columns |-> ThematicColumns, rows |-> t]>> :
        c \in {x \in SeqsUpTo(calcRows, n) : OneRowPerEntity(x, key)},
        t \in SeqsUpTo(thematicRows, n)}

\* a validation record as the validators compute it (identities left out)
ValidationRow(attr, calc, thematic) ==
    [attribute_name |-> attr, calculated_value |-> calc, thematic_value |-> thematic,
     difference |-> calc - thematic,
     percent_error |-> PercentError(calc - thematic, thematic)]
ValidationColumns == {"attribute_name", "calculated_value", "thematic_value",
                      "difference", "percent_error"}

\* attribute names given to compute_errors ("volume": a name it does not know)
ErrorAttributes == HeightNames \cup AreaNames \cup {"tilt", "azimuth", "volume"}
ErrorValues == {-1, 0, 10, 180, 350, 360}

\* configured thresholds of one kind
ToleranceDicts ==
    { EmptyDict,
      [height |-> 2],
      [min_height |-> 2],
      [surface_area |-> 2],
      [height |-> 20, surface_area |-> 20] }
\* config['validation']['tolerance']: a dict from some of the kinds to thresholds
Configs ==
    UNION {{[tolerance |-> t] : t \in [kinds -> ToleranceDicts]} :
              kinds \in SUBSET {"abs", "percent"}}
ToleranceAttributes == {"footprint_area", "min_height", "max_height", "surface_area", "tilt"}
ToleranceCalcValues == {10, 12, 13}
ToleranceThematicValues == {0, 10}

NoConfig == [tolerance |-> EmptyDict]

\* validation tables of the given attributes and values, up to n rows
ValidationTables(attributes, calcValues, thematicValues, n) ==
    {[columns |-> ValidationColumns, rows |-> r] :
        r \in SeqsUpTo({ValidationRow(a, c, t) :
                           a \in attributes, c \in calcValues, t \in thematicValues}, n)}

\* attribute_name arguments of the metric functions ("volume": no record has it)
MetricAttributes == {"tilt", "surface_area"}
AttributeArguments == {None, ""} \cup MetricAttributes \cup {"volume"}

\* a surface validation record: a validation record with its surface identity
SurfaceValidationRow(id, attr, calc, thematic) ==
    [surface_feature_id |-> id, attribute_name |-> attr, calculated_value |-> calc,
     thematic_value |-> thematic, difference |-> calc - thematic,
     percent_error |-> PercentError(calc - thematic, thematic)]
\* the surface validation tables given to the export: record i is of surface i
ExportTables ==
    {[columns |-> ValidationColumns \cup {"surface_feature_id"},
      rows |-> [i \in 1..Len(r) |-> SurfaceValidationRow(i, r[i][1], r[i][2], r[i][3])]] :
        r \in SeqsUpTo({"surface_area", "azimuth"} \X {0, 11, 12, 180, 350} \X {0, 10},
                       MaxExportRows)}
\* error_threshold arguments
ExportThresholds == {10, 5000}
\* the file at output_path before the call: none, or one an earlier run left
StaleFile == [exists |-> TRUE, header |-> {"attribute_name"}, lines |-> <<>>]
OutputFiles == {NoFile, StaleFile}

\* d1 extended by the entries of d2
Merge(d1, d2) ==
    [k \in DOMAIN d1 \cup DOMAIN d2 |-> IF k \in DOMAIN d1 THEN d1[k] ELSE d2[k]]
\* one attribute of the configuration
Attr(attr_name, attr_config) == [name |-> attr_name, config |-> attr_config]
\* configurations of a height attribute: source label absent, empty or 'value';
\* computed columns as a list, a single name, both or neither
HeightConfigs ==
    {Attr("height", Merge(l, c)) :
        l \in {EmptyDict, [source_label |-> ""], [source_label |-> "value"]},
        c \in {EmptyDict,
               [computed_column |-> "min_height"],
               [computed_columns |-> <<"min_height", "max_height">>],
               [computed_columns |-> <<"min_height", "max_height">>,
                computed_column |-> "height"]}}
\* configurations of an area attribute
AreaConfigs ==
    {Attr("area", Merge(l, c)) :
        l \in {EmptyDict, [source_label |-> ""], [source_label |-> "Flaeche"]},
        c \in {[computed_column |-> "surface_area"],
               [computed_columns |-> <<"surface_area">>]}}
\* the attributes of one level
LevelAttributes ==
    {<<>>} \cup {<<h>> : h \in HeightConfigs} \cup {<<a>> : a \in AreaConfigs}
        \cup {<<h, a>> : h \in HeightConfigs, a \in AreaConfigs}
\* configurations: without the attributes section, with the parent level only, with
\* the parent level and the roof level
AttributeConfigs ==
    {EmptyDict}
        \cup {[attributes |-> [parent |-> p]] : p \in LevelAttributes}
        \cup {[attributes |-> [parent |-> p, child |-> [roof |-> c]]] :
                 p \in LevelAttributes, c \in LevelAttributes}
\* surface_type arguments of get_surface_attribute_mapping
SurfaceKinds == {"roof", "wall"}

\* mappings given to the loaders: two attributes of one label, attributes of
\* different labels, an attribute without label, none
LoaderMappings ==
    { <<Entry("min_height", "value"), Entry("max_height", "value")>>,
      <<Entry("footprint_area", "Flaeche"), Entry("min_height", "value")>>,
      <<Entry("surface_area", "Flaeche"), Entry("tilt", "")>>,
      <<Entry("tilt", "")>>,
      <<>> }
\* identity lists given to the loaders
FeatureIdLists == {[i \in 1..n |-> i] : n \in 0..MaxId}
\* rows of the property table: numeric ones and ones without a numeric value
PropertyRows ==
    {[feature_id |-> id, name |-> name, numeric |-> v[1], value |-> v[2]] :
        id \in Ids, name \in {"value", "Flaeche", "other"},
        v \in {<<TRUE, 10>>, <<TRUE, 20>>, <<FALSE, 0>>}}
PropertyTables == {t \in SUBSET PropertyRows : Cardinality(t) <= MaxPropertyRows}

\* get_outliers: attribute_name, method ("mad": a name it does not know), threshold
OutlierAttributes == {None, "tilt", "volume"}
OutlierMethods == {"iqr", "zscore", "mad"}
OutlierThresholds == {1, 3}

(***************************************************************************)
(* compute_errors on one attribute's validation table                      *)
(***************************************************************************)
InitErrors ==
    /\ op = "none"
    /\ attribute \in ErrorAttributes
    /\ df \in {[columns |-> ValidationColumns, rows |-> r] :
                 r \in SeqsUpTo({ValidationRow(attribute, c, t) :
                                    c \in ErrorValues, t \in ErrorValues}, MaxDfRows)}
    /\ calc_df = EmptyFrame /\ thematic_df = EmptyFrame
    /\ attribute_mapping = <<>> /\ surface_type = "RoofSurface"
    /\ validation_df = EmptyFrame /\ raised = "none" /\ warnings = {}
    /\ config = NoConfig /\ tolerance_type = "abs" /\ result_df = EmptyFrame
    /\ NoCall

compute_errors ==
    /\ op = "none"
    /\ df' = [df EXCEPT !.rows = [i \in 1..Len(df.rows) |->
                                    ComputeErrorsRow(df.rows[i], attribute)]]
    /\ op' = "compute_errors"
    /\ UNCHANGED <<attribute, valVars, tolVars, callVars>>

NextErrors == compute_errors

SpecErrors == InitErrors /\ [][NextErrors]_vars

(***************************************************************************)
(* The validators on one run's tables                                      *)
(***************************************************************************)
InitValidate ==
    /\ op = "none"
    /\ \/ /\ attribute_mapping \in BuildingMappings
          /\ \E computed \in BuildingComputed :
                \E tables \in Tables(BuildingIdColumns, computed, BuildingCalcRows(computed),
                                     "building_feature_id", attribute_mapping) :
                    calc_df = tables[1] /\ thematic_df = tables[2]
       \/ /\ attribute_mapping \in SurfaceMappings
          /\ \E computed \in SurfaceComputed :
                \E tables \in Tables(SurfaceIdColumns, computed, SurfaceCalcRows(computed),
                                     "surface_feature_id", attribute_mapping) :
                    calc_df = tables[1] /\ thematic_df = tables[2]
    /\ surface_type = "RoofSurface"
    /\ validation_df = EmptyFrame /\ raised = "none" /\ warnings = {}
    /\ df = EmptyFrame /\ attribute = ""
    /\ config = NoConfig /\ tolerance_type = "abs" /\ result_df = EmptyFrame
    /\ NoCall

validate_building_attributes ==
    /\ op = "none"
    /\ "surface_feature_id" \notin calc_df.columns
    /\ LET out == ValidateBuilding(calc_df, thematic_df, attribute_mapping)
       IN  /\ validation_df' = out.validation_df
           /\ warnings' = out.warnings
           /\ raised' = out.raised
    /\ op' = "validate_building_attributes"
    /\ UNCHANGED <<calc_df, thematic_df, attribute_mapping, surface_type, errVars, tolVars,
                   callVars>>

validate_surface_attributes ==
    /\ op = "none"
    /\ "surface_feature_id" \in calc_df.columns
    /\ \E stype \in Classnames :
        LET out == ValidateSurface(calc_df, thematic_df, attribute_mapping, stype)
        IN  /\ surface_type' = stype
            /\ validation_df' = out.validation_df
            /\ warnings' = out.warnings
            /\ raised' = out.raised
    /\ op' = "validate_surface_attributes"
    /\ UNCHANGED <<calc_df, thematic_df, attribute_mapping, errVars, tolVars, callVars>>

NextValidate == validate_building_attributes \/ validate_surface_attributes

SpecValidate == InitValidate /\ [][NextValidate]_vars

(***************************************************************************)
(* check_tolerance on a validation table                                   *)
(***************************************************************************)
InitTolerance ==
    /\ op = "none"
    /\ validation_df \in
         {[columns |-> ValidationColumns, rows |-> r] :
            r \in SeqsUpTo({ValidationRow(a, c, t) : a \in ToleranceAttributes,
                              c \in ToleranceCalcValues, t \in ToleranceThematicValues},
                           MaxTolRows)}
    /\ config = NoConfig /\ tolerance_type = "abs" /\ result_df = EmptyFrame
    /\ calc_df = EmptyFrame /\ thematic_df = EmptyFrame
    /\ attribute_mapping = <<>> /\ surface_type = "RoofSurface"
    /\ raised = "none" /\ warnings = {}
    /\ df = EmptyFrame /\ attribute = ""
    /\ NoCall

\* the functions that take validation records run on a table nothing was called on
\* yet or on the return value of a validator that did not raise
Ready ==
    /\ op \in {"none", "validate_building_attributes", "validate_surface_attributes"}
    /\ raised = "none"

check_tolerance ==
    /\ Ready
    /\ \E cfg \in Configs, kind \in {"abs", "percent"} :
        LET out == CheckToleranceCall(validation_df, cfg, kind)
        IN  /\ config' = cfg
            /\ tolerance_type' = kind
            /\ result_df' = out.result_df
            /\ validation_df' = out.validation_df
    /\ op' = "check_tolerance"
    /\ UNCHANGED <<errVars, calc_df, thematic_df, attribute_mapping, surface_type, raised,
                   warnings, callVars>>

NextTolerance == check_tolerance

SpecTolerance == InitTolerance /\ [][NextTolerance]_vars

(***************************************************************************)
(* calculate_r_squared on a validation table                               *)
(***************************************************************************)
InitRSquared ==
    /\ op = "none"
    /\ validation_df \in ValidationTables(MetricAttributes, {10, 12}, {0, 10}, MaxR2Rows)
    /\ args = <<>> /\ returned = None /\ output_file = NoFile /\ property = {}
    /\ calc_df = EmptyFrame /\ thematic_df = EmptyFrame
    /\ attribute_mapping = <<>> /\ surface_type = "RoofSurface"
    /\ raised = "none" /\ warnings = {}
    /\ df = EmptyFrame /\ attribute = ""
    /\ config = NoConfig /\ tolerance_type = "abs" /\ result_df = EmptyFrame

calculate_r_squared ==
    /\ op = "none"
    /\ \E attribute_name \in AttributeArguments :
        /\ args' = [attribute_name |-> attribute_name]
        /\ returned' = CalculateRSquared(validation_df, attribute_name)
    /\ op' = "calculate_r_squared"
    /\ UNCHANGED <<errVars, valVars, tolVars, output_file, property>>

NextRSquared == calculate_r_squared

SpecRSquared == InitRSquared /\ [][NextRSquared]_vars

(***************************************************************************)
(* get_outliers on a validation table                                      *)
(***************************************************************************)
InitOutliers ==
    /\ op = "none"
    /\ validation_df \in ValidationTables(MetricAttributes, {10, 110}, {10},
                                          MaxOutlierRows)
    /\ args = <<>> /\ returned = None /\ output_file = NoFile /\ property = {}
    /\ calc_df = EmptyFrame /\ thematic_df = EmptyFrame
    /\ attribute_mapping = <<>> /\ surface_type = "RoofSurface"
    /\ raised = "none" /\ warnings = {}
    /\ df = EmptyFrame /\ attribute = ""
    /\ config = NoConfig /\ tolerance_type = "abs" /\ result_df = EmptyFrame

get_outliers ==
    /\ Ready
    /\ \E attribute_name \in OutlierAttributes, method \in OutlierMethods,
          threshold \in OutlierThresholds :
        LET out == GetOutliers(validation_df, attribute_name, method, threshold)
        IN  /\ args' = [attribute_name |-> attribute_name, method |-> method,
                        threshold |-> threshold]
            /\ returned' = out.returned
            /\ raised' = out.raised
    /\ op' = "get_outliers"
    /\ UNCHANGED <<errVars, calc_df, thematic_df, attribute_mapping, surface_type,
                   validation_df, warnings, tolVars, output_file, property>>

NextOutliers == get_outliers

SpecOutliers == InitOutliers /\ [][NextOutliers]_vars

(***************************************************************************)
(* export_problematic_surfaces on a surface validation table               *)
(***************************************************************************)
InitExport ==
    /\ op = "none"
    /\ validation_df \in ExportTables
    /\ output_file \in OutputFiles
    /\ args = <<>> /\ returned = None /\ property = {}
    /\ calc_df = EmptyFrame /\ thematic_df = EmptyFrame
    /\ attribute_mapping = <<>> /\ surface_type = "RoofSurface"
    /\ raised = "none" /\ warnings = {}
    /\ df = EmptyFrame /\ attribute = ""
    /\ config = NoConfig /\ tolerance_type = "abs" /\ result_df = EmptyFrame

export_problematic_surfaces ==
    /\ Ready
    /\ \E error_threshold \in ExportThresholds :
        LET out == ExportProblematicSurfaces(validation_df, output_file, error_threshold)
        IN  /\ args' = [error_threshold |-> error_threshold]
            /\ returned' = out.returned
            /\ output_file' = out.output_file
            /\ raised' = out.raised
    /\ op' = "export_problematic_surfaces"
    /\ UNCHANGED <<errVars, calc_df, thematic_df, attribute_mapping, surface_type,
                   validation_df, warnings, tolVars, property>>

NextExport == export_problematic_surfaces

SpecExport == InitExport /\ [][NextExport]_vars

(***************************************************************************)
(* The attribute mappings of a configuration                               *)
(***************************************************************************)
InitMapping ==
    /\ op = "none"
    /\ config \in AttributeConfigs
    /\ attribute_mapping = <<>>
    /\ NoCall
    /\ calc_df = EmptyFrame /\ thematic_df = EmptyFrame
    /\ surface_type = "RoofSurface"
    /\ validation_df = EmptyFrame /\ raised = "none" /\ warnings = {}
    /\ df = EmptyFrame /\ attribute = ""
    /\ tolerance_type = "abs" /\ result_df = EmptyFrame

get_building_attribute_mapping ==
    /\ op = "none"
    /\ attribute_mapping' = GetBuildingAttributeMapping(config)
    /\ op' = "get_building_attribute_mapping"
    /\ UNCHANGED <<errVars, calc_df, thematic_df, surface_type, validation_df, raised,
                   warnings, tolVars, callVars>>

get_surface_attribute_mapping ==
    /\ op = "none"
    /\ \E kind \in SurfaceKinds :
        /\ args' = [surface_type |-> kind]
        /\ attribute_mapping' = GetSurfaceAttributeMapping(config, kind)
    /\ op' = "get_surface_attribute_mapping"
    /\ UNCHANGED <<errVars, calc_df, thematic_df, surface_type, validation_df, raised,
                   warnings, tolVars, returned, output_file, property>>

NextMapping == get_building_attribute_mapping \/ get_surface_attribute_mapping

SpecMapping == InitMapping /\ [][NextMapping]_vars

(***************************************************************************)
(* The loaders of the reference data                                       *)
(***************************************************************************)
InitLoad ==
    /\ op = "none"
    /\ property \in PropertyTables
    /\ attribute_mapping \in LoaderMappings
    /\ \E feature_ids \in FeatureIdLists : args = [feature_ids |-> feature_ids]
    /\ returned = None /\ output_file = NoFile
    /\ calc_df = EmptyFrame /\ thematic_df = EmptyFrame
    /\ surface_type = "RoofSurface"
    /\ validation_df = EmptyFrame /\ raised = "none" /\ warnings = {}
    /\ df = EmptyFrame /\ attribute = ""
    /\ config = NoConfig /\ tolerance_type = "abs" /\ result_df = EmptyFrame

\* returned holds the table read from the database, thematic_df the loader's result
load_thematic_building_data ==
    /\ op = "none"
    /\ IF NothingToLoad(args.feature_ids, attribute_mapping)
       THEN /\ thematic_df' = [columns |-> ThematicFrameColumns, rows |-> <<>>]
            /\ returned' = returned
       ELSE \E loaded \in QueryResults(property, args.feature_ids,
                                       SourceLabels(attribute_mapping)) :
                /\ returned' = loaded
                /\ thematic_df' = NormalizeBuilding(loaded, attribute_mapping)
    /\ op' = "load_thematic_building_data"
    /\ UNCHANGED <<errVars, calc_df, attribute_mapping, surface_type, validation_df,
                   raised, warnings, tolVars, args, output_file, property>>

load_thematic_surface_data ==
    /\ op = "none"
    /\ IF NothingToLoad(args.feature_ids, attribute_mapping)
       THEN /\ thematic_df' = [columns |-> ThematicFrameColumns, rows |-> <<>>]
            /\ returned' = returned
       ELSE \E loaded \in QueryResults(property, args.feature_ids,
                                       SourceLabels(attribute_mapping)) :
                /\ returned' = loaded
                /\ thematic_df' = NormalizeSurface(loaded, attribute_mapping)
    /\ op' = "load_thematic_surface_data"
    /\ UNCHANGED <<errVars, calc_df, attribute_mapping, surface_type, validation_df,
                   raised, warnings, tolVars, args, output_file, property>>

NextLoad == load_thematic_building_data \/ load_thematic_surface_data

SpecLoad == InitLoad /\ [][NextLoad]_vars

(***************************************************************************)
(* get_validation_summary on a validation table                            *)
(***************************************************************************)
InitSummary ==
    /\ op = "none"
    /\ validation_df \in ValidationTables(MetricAttributes, {10, 12}, {0, 10},
                                          MaxSummaryRows)
    /\ NoCall
    /\ calc_df = EmptyFrame /\ thematic_df = EmptyFrame
    /\ attribute_mapping = <<>> /\ surface_type = "RoofSurface"
    /\ raised = "none" /\ warnings = {}
    /\ df = EmptyFrame /\ attribute = ""
    /\ config = NoConfig /\ tolerance_type = "abs" /\ result_df = EmptyFrame

get_validation_summary ==
    /\ op = "none"
    /\ returned' = GetValidationSummary(validation_df)
    /\ op' = "get_validation_summary"
    /\ UNCHANGED <<errVars, valVars, tolVars, args, output_file, property>>

NextSummary == get_validation_summary

SpecSummary == InitSummary /\ [][NextSummary]_vars

(***************************************************************************)
(* The validators on tables in any row order                               *)
(***************************************************************************)
InitOrder ==
    /\ op = "none"
    /\ \/ /\ attribute_mapping = <<Entry("min_height", "value")>>
          /\ \E tables \in TablesUpTo(BuildingIdColumns, {"min_height"},
                                       BuildingCalcRows({"min_height"}),
                                       "building_feature_id",
                                       ThematicRows(attribute_mapping), MaxOrderRows) :
                calc_df = tables[1] /\ thematic_df = tables[2]
       \* the reference table can have a row of surface_area, which the mapping gives
       \* no source label
       \/ /\ attribute_mapping = <<Entry("surface_area", ""), Entry("tilt", "Dachneigung")>>
          /\ \E tables \in TablesUpTo(SurfaceIdColumns, {"surface_area", "tilt"},
                                       SurfaceCalcRows({"surface_area", "tilt"}),
                                       "surface_feature_id",
                                       {r \in ThematicRows(<<Entry("surface_area", "Flaeche"),
                                                             Entry("tilt", "Dachneigung")>>) :
                                            \/ r.attribute_name = "tilt"
                                            \/ r.feature_id = 1 /\ r.thematic_value = 10},
                                       MaxOrderRows) :
                calc_df = tables[1] /\ thematic_df = tables[2]
    /\ surface_type = "RoofSurface"
    /\ validation_df = EmptyFrame /\ raised = "none" /\ warnings = {}
    /\ df = EmptyFrame /\ attribute = ""
    /\ config = NoConfig /\ tolerance_type = "abs" /\ result_df = EmptyFrame
    /\ NoCall

SpecOrder == InitOrder /\ [][NextValidate]_vars

(***************************************************************************)
(* A validation run whose records are passed on to check_tolerance,        *)
(* get_outliers and export_problematic_surfaces                            *)
(***************************************************************************)
\* rows of the entities a run of this size has
InRun(rows, key) == {r \in rows : r[key] <= MaxPipelineRows}

InitPipeline ==
    /\ op = "none"
    /\ \/ /\ attribute_mapping = <<Entry("min_height", "value")>>
          /\ \E tables \in TablesUpTo(BuildingIdColumns, {"min_height"},
                    InRun(BuildingCalcRows({"min_height"}), "building_feature_id"),
                    "building_feature_id",
                    InRun(ThematicRows(attribute_mapping), "feature_id"),
                    MaxPipelineRows) :
                calc_df = tables[1] /\ thematic_df = tables[2]
       \/ /\ attribute_mapping = <<Entry("azimuth", "Dachorientierung")>>
          /\ \E tables \in TablesUpTo(SurfaceIdColumns, {"azimuth"},
                    InRun(SurfaceCalcRows({"azimuth"}), "surface_feature_id"),
                    "surface_feature_id",
                    InRun(ThematicRows(attribute_mapping), "feature_id"),
                    MaxPipelineRows) :
                calc_df = tables[1] /\ thematic_df = tables[2]
    /\ surface_type = "RoofSurface"
    /\ validation_df = EmptyFrame /\ raised = "none" /\ warnings = {}
    /\ df = EmptyFrame /\ attribute = ""
    /\ config = NoConfig /\ tolerance_type = "abs" /\ result_df = EmptyFrame
    /\ NoCall

NextPipeline ==
    \/ validate_building_attributes
    \/ validate_surface_attributes
    \/ check_tolerance
    \/ get_outliers
    \/ export_problematic_surfaces

SpecPipeline == InitPipeline /\ [][NextPipeline]_vars

(***************************************************************************)
(* Properties.                                                             *)
(***************************************************************************)
Validated == op \in {"validate_building_attributes", "validate_surface_attributes"}
Records == validation_df.rows
RecordIndices == 1..Len(validation_df.rows)

\* shortest-arc distance of two angles, as section 4.2 of the specification states it
ShortestArc(a, b) ==
    LET raw == (IF a >= b THEN a - b ELSE b - a) % 360
    IN  IF raw <= 180 THEN raw ELSE 360 - raw

\* the attribute names section 4.2 calls linear and compute_errors knows
LinearNames == {"min_height", "max_height", "height", "surface_area", "area",
                "footprint_area"}

\* C1: every azimuth record that validate_surface_attributes emits reports the
\* shortest-arc distance of its calculated and reference value, a number in [0,180].
C1_SurfaceAzimuthShortestArc ==
    op = "validate_surface_attributes" =>
        \A i \in RecordIndices :
            Records[i].attribute_name = "azimuth" =>
                /\ Records[i].difference =
                       ShortestArc(Records[i].calculated_value, Records[i].thematic_value)
                /\ Records[i].difference \in 0..180

\* C2: for attribute 'azimuth' compute_errors sets every row's difference to the
\* shortest-arc distance: in [0,180], the same for a pair and the swapped pair,
\* 20 for (350, 10) and 180 for (0, 180).
C2_ComputeErrorsAzimuth ==
    (op = "compute_errors" /\ attribute = "azimuth") =>
        \A i \in 1..Len(df.rows) :
            LET row == df.rows[i]
            IN  /\ row.difference = ShortestArc(row.calculated_value, row.thematic_value)
                /\ row.difference \in 0..180
                /\ \A j \in 1..Len(df.rows) :
                       (/\ df.rows[j].calculated_value = row.thematic_value
                        /\ df.rows[j].thematic_value = row.calculated_value)
                           => df.rows[j].difference = row.difference
                /\ (row.calculated_value = 350 /\ row.thematic_value = 10)
                       => row.difference = 20
                /\ (row.calculated_value = 0 /\ row.thematic_value = 180)
                       => row.difference = 180

\* C2 witness: compute_errors has rewritten an azimuth table that holds the pair
\* (350, 10) and the swapped pair (10, 350).
C2_Witness ==
    /\ op = "compute_errors" /\ attribute = "azimuth"
    /\ Len(df.rows) = 2
    /\ df.rows[1].calculated_value = 350 /\ df.rows[1].thematic_value = 10
    /\ df.rows[2].calculated_value = 10 /\ df.rows[2].thematic_value = 350

\* C3: no record whose calculated or reference azimuth is -1 is in the output of the
\* circular comparison: not among the azimuth records of validate_surface_attributes,
\* not among the rows compute_errors computed an azimuth distance for.
C3_NoSentinelInCircularOutput ==
    /\ op = "validate_surface_attributes" =>
           \A i \in RecordIndices :
               Records[i].attribute_name = "azimuth" =>
                   Records[i].calculated_value # -1 /\ Records[i].thematic_value # -1
    /\ (op = "compute_errors" /\ attribute = "azimuth") =>
           \A i \in 1..Len(df.rows) :
               df.rows[i].calculated_value # -1 /\ df.rows[i].thematic_value # -1

\* C4: every tilt or azimuth record of validate_surface_attributes has a null
\* percent_error.
C4_AngularPercentErrorNull ==
    op = "validate_surface_attributes" =>
        \A i \in RecordIndices :
            Records[i].attribute_name \in {"tilt", "azimuth"} =>
                Records[i].percent_error.nan

\* C5: every height or area record of the validators has a finite percent_error
\* equal to difference / (reference + 1e-6) * 100, also for reference 0.
C5_LinearPercentErrorStabilized ==
    Validated =>
        \A i \in RecordIndices :
            Records[i].attribute_name \in LinearNames =>
                /\ IsFinite(Records[i].percent_error)
                /\ FracEq(Records[i].percent_error,
                          [nan |-> FALSE, num |-> Records[i].difference * 100,
                           den |-> Records[i].thematic_value, micro |-> 1])

\* C6: for a name that is no height or area name compute_errors sets percent_error
\* to null on every row, and for every such name but azimuth the difference to
\* calculated - reference.
C6_ComputeErrorsPercentDisabled ==
    (op = "compute_errors" /\ attribute \notin LinearNames) =>
        \A i \in 1..Len(df.rows) :
            /\ df.rows[i].percent_error.nan
            /\ attribute # "azimuth" =>
                   df.rows[i].difference =
                       df.rows[i].calculated_value - df.rows[i].thematic_value

\* C6 witness: compute_errors has rewritten rows of a name it does not know whose
\* reference is not 0 (a percent figure could have been computed).
C6_Witness ==
    /\ op = "compute_errors" /\ attribute = "volume"
    /\ \E i \in 1..Len(df.rows) :
           df.rows[i].thematic_value = 10 /\ df.rows[i].calculated_value = 350

\* the identity column of the validated level
RecordId(record) ==
    IF op = "validate_surface_attributes" THEN record.surface_feature_id
    ELSE record.building_feature_id
\* a calculated row the validator call covers: any building row, a surface row of
\* the requested subtype
Covered(row) == op = "validate_surface_attributes" => row.classname = surface_type
CalcId(row) ==
    IF op = "validate_surface_attributes" THEN row.surface_feature_id
    ELSE row.building_feature_id
\* the reference rows of one identity and attribute
ReferenceOf(id, attr) ==
    {k \in 1..Len(thematic_df.rows) :
        /\ thematic_df.rows[k].feature_id = id
        /\ thematic_df.rows[k].attribute_name = attr}
RecordsOf(id, attr) ==
    {i \in RecordIndices : RecordId(Records[i]) = id /\ Records[i].attribute_name = attr}
\* the azimuth -1 rule applies to the pair: its calculated or a reference value is -1
SentinelPair(row, attr) ==
    /\ op = "validate_surface_attributes" /\ attr = "azimuth"
    /\ \/ row.cells[attr] = -1
       \/ \E k \in ReferenceOf(CalcId(row), attr) : thematic_df.rows[k].thematic_value = -1

\* C7: a validator that returns emits exactly one record for each mapped attribute
\* and each identity that is in the calculated table (with the attribute's column)
\* and in the attribute's reference rows, unless the azimuth -1 rule removes it.
C7_ExactlyOneRecordPerPair ==
    (Validated /\ raised = "none") =>
        \A attr \in Mapped(attribute_mapping) \cap calc_df.columns :
            \A c \in 1..Len(calc_df.rows) :
                LET row == calc_df.rows[c]
                IN  (/\ Covered(row)
                     /\ ReferenceOf(CalcId(row), attr) # {}
                     /\ ~SentinelPair(row, attr))
                        => Cardinality(RecordsOf(CalcId(row), attr)) = 1

\* C8: a validator given a mapped attribute whose column the calculated table lacks
\* does not fail, emits no record of that attribute, names the column in a warning
\* when it gets to the attribute, and still emits the records of the other attributes.
C8_MissingColumnSkipped ==
    Validated =>
        /\ raised = "none"
        /\ \A attr \in Mapped(attribute_mapping) \ calc_df.columns :
               /\ \A i \in RecordIndices : Records[i].attribute_name # attr
               /\ (/\ Len(thematic_df.rows) > 0
                   /\ \E c \in 1..Len(calc_df.rows) : Covered(calc_df.rows[c]))
                      => \E w \in warnings : w.column = attr
        /\ (\E attr \in Mapped(attribute_mapping) : attr \notin calc_df.columns) =>
               \A attr \in Mapped(attribute_mapping) \cap calc_df.columns :
                   \A c \in 1..Len(calc_df.rows) :
                       LET row == calc_df.rows[c]
                       IN  (/\ Covered(row)
                            /\ ReferenceOf(CalcId(row), attr) # {}
                            /\ ~SentinelPair(row, attr))
                               => RecordsOf(CalcId(row), attr) # {}

\* C9: a validator given an empty calculated or an empty reference table returns an
\* empty record set and raises nothing, whatever the mapping.
C9_EmptyInputEmptyResult ==
    (Validated /\ (Len(calc_df.rows) = 0 \/ Len(thematic_df.rows) = 0)) =>
        raised = "none" /\ Len(validation_df.rows) = 0

\* C9 witness: validate_building_attributes has returned from a call with an empty
\* calculated table that lacks a mapped column and with reference rows of that
\* attribute.
C9_Witness ==
    /\ op = "validate_building_attributes"
    /\ Len(calc_df.rows) = 0
    /\ "footprint_area" \notin calc_df.columns
    /\ \E k \in 1..Len(thematic_df.rows) :
           thematic_df.rows[k].attribute_name = "footprint_area"

\* the tolerance key of an attribute, as section 4.4 of the specification states it
NormalizedKey(attr) ==
    IF attr \in {"min_height", "max_height"} THEN "height" ELSE attr

\* C10: check_tolerance returns every input record with a within_tolerance value,
\* and the value is null for a record whose normalized key has no threshold, also
\* when the section of the requested kind is empty or absent.
C10_NullWithoutThreshold ==
    op = "check_tolerance" =>
        /\ Len(result_df.rows) = Len(validation_df.rows)
        /\ \A i \in 1..Len(result_df.rows) :
               /\ "within_tolerance" \in DOMAIN result_df.rows[i]
               /\ (\/ tolerance_type \notin DOMAIN config.tolerance
                   \/ NormalizedKey(result_df.rows[i].attribute_name)
                          \notin DOMAIN config.tolerance[tolerance_type])
                      => result_df.rows[i].within_tolerance = "None"

\* the thresholds of the requested kind, none when the section is absent
Thresholds ==
    IF tolerance_type \in DOMAIN config.tolerance THEN config.tolerance[tolerance_type]
    ELSE EmptyDict
\* a returned record whose normalized key has a threshold of the requested kind
HasThreshold(record) == NormalizedKey(record.attribute_name) \in DOMAIN Thresholds
ThresholdOf(record) == Thresholds[NormalizedKey(record.attribute_name)]

\* C11: with tolerance type 'percent' and a threshold configured for the record's
\* key, a record whose percent_error is null gets within_tolerance null (not false),
\* and a record with a percent_error gets |percent_error| <= threshold.
C11_PercentNullStaysNull ==
    (op = "check_tolerance" /\ tolerance_type = "percent") =>
        \A i \in 1..Len(result_df.rows) :
            LET record == result_df.rows[i]
            IN  HasThreshold(record) =>
                    IF record.percent_error.nan
                    THEN record.within_tolerance = "None"
                    ELSE record.within_tolerance =
                             (IF Abs(record.difference * 100)
                                    <= ThresholdOf(record) * Abs(record.thematic_value)
                              THEN "True" ELSE "False")

\* C12: with tolerance type 'abs' and a threshold configured for the record's key,
\* within_tolerance is true exactly when |difference| <= threshold: true on the
\* boundary, false beyond it.
C12_AbsInclusiveBoundary ==
    (op = "check_tolerance" /\ tolerance_type = "abs") =>
        \A i \in 1..Len(result_df.rows) :
            LET record == result_df.rows[i]
            IN  HasThreshold(record) =>
                    /\ record.within_tolerance \in {"True", "False"}
                    /\ record.within_tolerance = "True"
                           <=> Abs(record.difference) <= ThresholdOf(record)

\* C12 witness: an 'abs' check has returned a record on the boundary (difference 2,
\* threshold 2) and a record one beyond it (difference 3).
C12_Witness ==
    /\ op = "check_tolerance" /\ tolerance_type = "abs"
    /\ Len(result_df.rows) = 2
    /\ HasThreshold(result_df.rows[1]) /\ ThresholdOf(result_df.rows[1]) = 2
    /\ result_df.rows[1].difference = 2
    /\ HasThreshold(result_df.rows[2]) /\ ThresholdOf(result_df.rows[2]) = 2
    /\ result_df.rows[2].difference = 3

\* C13: the threshold of a record is looked up under 'height' for min_height and
\* max_height (a threshold under 'min_height' or 'max_height' is never used), under
\* 'surface_area' for surface_area, under its own name for every other attribute.
C13_NormalizedToleranceKey ==
    (op = "check_tolerance" /\ DOMAIN Thresholds # {}) =>
        \A i \in 1..Len(result_df.rows) :
            LET record == result_df.rows[i]
                key == IF record.attribute_name \in {"min_height", "max_height"}
                       THEN "height"
                       ELSE IF record.attribute_name = "surface_area"
                       THEN "surface_area"
                       ELSE record.attribute_name
            IN  /\ key \notin DOMAIN Thresholds => record.within_tolerance = "None"
                /\ key \in DOMAIN Thresholds =>
                       /\ record.within_tolerance # "None"
                       /\ tolerance_type = "abs" =>
                              (record.within_tolerance = "True"
                                   <=> Abs(record.difference) <= Thresholds[key])

\* C13 witness: a check whose only threshold is under 'min_height' has returned a
\* min_height record, and one whose threshold is under 'height' a max_height record.
C13_Witness ==
    /\ op = "check_tolerance"
    /\ \/ /\ DOMAIN Thresholds = {"min_height"}
          /\ \E i \in 1..Len(result_df.rows) :
                 result_df.rows[i].attribute_name = "min_height"
       \/ /\ DOMAIN Thresholds = {"height"}
          /\ \E i \in 1..Len(result_df.rows) :
                 result_df.rows[i].attribute_name = "max_height"

\* the records of one attribute in the validation table
GroupOf(attr) == SelectSeq(validation_df.rows, LAMBDA row : row.attribute_name = attr)
\* n * SS_tot and n * SS_res of a group of n records, SS_tot in the closed form
\* sum(t^2) - sum(t)^2 / n
GroupSsTotTimesN(attr) ==
    LET g == GroupOf(attr)
    IN  Len(g) * SumSeq([i \in 1..Len(g) |-> g[i].thematic_value * g[i].thematic_value])
          - SumSeq([i \in 1..Len(g) |-> g[i].thematic_value])
              * SumSeq([i \in 1..Len(g) |-> g[i].thematic_value])
GroupSsResTimesN(attr) ==
    LET g == GroupOf(attr)
    IN  Len(g) * SumSeq([i \in 1..Len(g) |->
                            (g[i].calculated_value - g[i].thematic_value)
                                * (g[i].calculated_value - g[i].thematic_value)])
ConstantReference(attr) ==
    \A i, j \in 1..Len(GroupOf(attr)) :
        GroupOf(attr)[i].thematic_value = GroupOf(attr)[j].thematic_value
\* the coefficient calculate_r_squared reported for an attribute: the value it
\* returned, or the attribute's entry of the dict it returned (null when absent)
ReportedR2(attr) ==
    IF args.attribute_name \notin {None, ""} \/ Len(validation_df.rows) = 0
    THEN returned
    ELSE IF attr \in DOMAIN returned THEN returned[attr] ELSE NullR2
\* the attributes a calculate_r_squared call reports on
ReportedAttributes ==
    IF args.attribute_name \notin {None, ""} THEN {args.attribute_name}
    ELSE AttributeNames(validation_df)

C15_UnknownMethodRaises ==
    (op = "get_outliers" /\ args.method \notin {"iqr", "zscore"}) =>
        raised = "ValueError"

\* the records get_outliers looks at: those of the selected attribute, or all
Pooled ==
    IF args.attribute_name \notin {None, ""}
    THEN SelectSeq(validation_df.rows, LAMBDA row : row.attribute_name = args.attribute_name)
    ELSE validation_df.rows
\* the k-th smallest difference of the pooled records
OrderStatistic(k) ==
    CHOOSE v \in {Pooled[i].difference : i \in 1..Len(Pooled)} :
        /\ Cardinality({i \in 1..Len(Pooled) : Pooled[i].difference < v}) < k
        /\ Cardinality({i \in 1..Len(Pooled) : Pooled[i].difference <= v}) >= k
\* 4 * the quartile at quarters / 4, linearly interpolated
Quartile4(quarters) ==
    LET position == quarters * (Len(Pooled) - 1)
        k == position \div 4 + 1
        part == position % 4
    IN  IF part = 0 THEN 4 * OrderStatistic(k)
        ELSE (4 - part) * OrderStatistic(k) + part * OrderStatistic(k + 1)
LowerBound4 == Quartile4(1) - args.threshold * (Quartile4(3) - Quartile4(1))
UpperBound4 == Quartile4(3) + args.threshold * (Quartile4(3) - Quartile4(1))

\* C16: with method 'iqr' get_outliers returns exactly the records (of the selected
\* attribute, or all pooled) whose difference is strictly below Q1 - threshold * IQR
\* or strictly above Q3 + threshold * IQR, in their order; a record on a bound is
\* not returned.
C16_IqrStrictBounds ==
    (op = "get_outliers" /\ args.method = "iqr" /\ Len(validation_df.rows) > 0) =>
        /\ raised = "none"
        /\ returned.rows =
               SelectSeq(Pooled, LAMBDA row : \/ 4 * row.difference < LowerBound4
                                             \/ 4 * row.difference > UpperBound4)
        /\ \A i \in 1..Len(returned.rows) :
               /\ 4 * returned.rows[i].difference # LowerBound4
               /\ 4 * returned.rows[i].difference # UpperBound4

\* C16 witness: an 'iqr' call with threshold 3 on pooled differences 0, 0, 0, 0, 100
\* has returned the record of difference 100 and no other.
C16_Witness ==
    /\ op = "get_outliers" /\ args.method = "iqr" /\ args.threshold = 3
    /\ args.attribute_name = None
    /\ Len(Pooled) = 5
    /\ Cardinality({i \in 1..5 : Pooled[i].difference = 0}) = 4
    /\ Len(returned.rows) = 1 /\ returned.rows[1].difference = 100

\* a record the export has to return: its percent_error is not null and exceeds
\* threshold_percent in magnitude, or its difference exceeds 170 in magnitude
Flagged(record) ==
    \/ /\ record.thematic_value # 0
       /\ Abs(record.difference * 100) > args.error_threshold * Abs(record.thematic_value)
    \/ Abs(record.difference) > 170

\* C17: export_problematic_surfaces returns exactly the records with
\* (percent_error not null and |percent_error| > threshold_percent) or
\* |difference| > 170: a record with a null percent_error exactly when
\* |difference| > 170, none with |percent_error| = threshold and |difference| <= 170.
C17_ExportExactlyFlagged ==
    op = "export_problematic_surfaces" =>
        /\ raised = "none"
        /\ returned.rows = SelectSeq(validation_df.rows, Flagged)
        /\ \A i \in 1..Len(validation_df.rows) :
               LET record == validation_df.rows[i]
                   exported == \E j \in 1..Len(returned.rows) : returned.rows[j] = record
               IN  /\ record.percent_error.nan => (exported <=> Abs(record.difference) > 170)
                   /\ (/\ ~record.percent_error.nan
                       /\ Abs(record.difference * 100)
                              = args.error_threshold * Abs(record.thematic_value)
                       /\ Abs(record.difference) <= 170) => ~exported

\* C17 witness: an export with threshold 10 was given a record of percent error 10
\* and a record of null percent error and difference 350, and returned the second.
C17_Witness ==
    /\ op = "export_problematic_surfaces" /\ args.error_threshold = 10
    /\ Len(validation_df.rows) = 2
    /\ validation_df.rows[1].calculated_value = 11
    /\ validation_df.rows[1].thematic_value = 10
    /\ validation_df.rows[2].percent_error.nan /\ validation_df.rows[2].difference = 350
    /\ Len(returned.rows) = 1 /\ returned.rows[1] = validation_df.rows[2]

MappingBuilt == op \in {"get_building_attribute_mapping", "get_surface_attribute_mapping"}
\* the configured attributes of the level the mapping was built for
LevelOf ==
    IF "attributes" \notin DOMAIN config THEN <<>>
    ELSE IF op = "get_building_attribute_mapping"
    THEN config.attributes.parent
    ELSE IF "child" \in DOMAIN config.attributes
              /\ args.surface_type \in DOMAIN config.attributes.child
    THEN config.attributes.child[args.surface_type]
    ELSE <<>>
\* the computed-column names an attribute configures
ConfiguredColumns(attr_config) ==
    IF "computed_columns" \in DOMAIN attr_config
    THEN {attr_config.computed_columns[i] : i \in 1..Len(attr_config.computed_columns)}
    ELSE IF "computed_column" \in DOMAIN attr_config
    THEN {attr_config.computed_column}
    ELSE {}
Labelled(attr_config) ==
    "source_label" \in DOMAIN attr_config /\ attr_config.source_label # ""
MappingKeys == {attribute_mapping[i].computed_column : i \in 1..Len(attribute_mapping)}

\* C18: no entry of a mapping built by get_building_attribute_mapping or
\* get_surface_attribute_mapping has an empty source label, and the columns of an
\* attribute configured with an empty or absent source_label are left out.
C18_NoEmptySourceLabel ==
    MappingBuilt =>
        /\ \A i \in 1..Len(attribute_mapping) :
               attribute_mapping[i].source_label \notin {"", None}
        /\ \A a \in 1..Len(LevelOf) :
               ~Labelled(LevelOf[a].config) =>
                   ConfiguredColumns(LevelOf[a].config) \cap MappingKeys = {}

\* C18 witness: a surface mapping and a building mapping were built from a level
\* with an attribute of empty source label and one with a label.
C18_Witness ==
    /\ MappingBuilt
    /\ Len(attribute_mapping) = 1
    /\ Len(LevelOf) = 2
    /\ "source_label" \in DOMAIN LevelOf[1].config
    /\ LevelOf[1].config.source_label = ""
    /\ ConfiguredColumns(LevelOf[1].config) # {}

\* C19: at every level (building, each surface subtype) an attribute with a
\* non-empty source label contributes one entry per column of its list of
\* computed-column names, or the one entry of its single name, each mapped to its
\* label; every key of the mapping is a configured computed-column name.
C19_OneEntryPerComputedColumn ==
    MappingBuilt =>
        /\ \A a \in 1..Len(LevelOf) :
               Labelled(LevelOf[a].config) =>
                   \A column \in ConfiguredColumns(LevelOf[a].config) :
                       Cardinality({i \in 1..Len(attribute_mapping) :
                           /\ attribute_mapping[i].computed_column = column
                           /\ attribute_mapping[i].source_label
                                  = LevelOf[a].config.source_label}) = 1
        /\ \A key \in MappingKeys :
               \E a \in 1..Len(LevelOf) : key \in ConfiguredColumns(LevelOf[a].config)

Loaded == op \in {"load_thematic_building_data", "load_thematic_surface_data"}
\* the rows of the property table a loader call loads: of a requested identity, of
\* a mapped source label, with a numeric value
LoadedRows ==
    {p \in property :
        /\ \E i \in 1..Len(args.feature_ids) : args.feature_ids[i] = p.feature_id
        /\ \E e \in 1..Len(attribute_mapping) :
               attribute_mapping[e].source_label = p.name
        /\ p.numeric}
\* the computed attributes that share a source label
SharingLabel(label) ==
    {attribute_mapping[e].computed_column :
        e \in {x \in 1..Len(attribute_mapping) : attribute_mapping[x].source_label = label}}
\* the reference records a loaded row was turned into
RecordsFrom(p) ==
    {i \in 1..Len(thematic_df.rows) :
        /\ thematic_df.rows[i].feature_id = p.feature_id
        /\ thematic_df.rows[i].thematic_value = p.value
        /\ thematic_df.rows[i].attribute_name \in SharingLabel(p.name)}

\* C20: both loaders turn every loaded row whose source label k computed attributes
\* share into exactly k reference records, one for each of these attributes.
C20_FanOutPerSharedLabel ==
    Loaded =>
        \A p \in LoadedRows :
            /\ Cardinality(RecordsFrom(p)) = Cardinality(SharingLabel(p.name))
            /\ \A attr \in SharingLabel(p.name) :
                   \E i \in RecordsFrom(p) : thematic_df.rows[i].attribute_name = attr

\* a classname the attribute's surface type filter admits
Admitted(attribute_name, classname) ==
    \/ GetSurfaceTypeFilter(attribute_name).all
    \/ classname \in GetSurfaceTypeFilter(attribute_name).classnames

\* C21: every tilt or azimuth record of validate_surface_attributes is of a
\* classname in get_surface_type_filter(attribute_name) = ['RoofSurface']; a call for
\* a non-roof subtype emits no tilt and no azimuth record.
C21_AngularRecordsOnlyForRoofs ==
    op = "validate_surface_attributes" =>
        \A i \in RecordIndices :
            Records[i].attribute_name \in {"tilt", "azimuth"} =>
                /\ Admitted(Records[i].attribute_name, Records[i].classname)
                /\ Records[i].classname = "RoofSurface"
                /\ surface_type = "RoofSurface"

C23_RecordsOrderedByIdentity ==
    (Validated /\ raised = "none") =>
        \A i, j \in RecordIndices :
            (i < j /\ Records[i].attribute_name = Records[j].attribute_name)
                => RecordId(Records[i]) <= RecordId(Records[j])

\* the outcome of the validator just called when the mapping holds the one entry only
Alone(entry) ==
    IF op = "validate_building_attributes"
    THEN ValidateBuilding(calc_df, thematic_df, <<entry>>)
    ELSE ValidateSurface(calc_df, thematic_df, <<entry>>, surface_type)

\* C24: the records a validator emits for one attribute do not depend on the other
\* entries of the mapping: they are the records of the call with that entry alone, and
\* another entry (empty source label, missing calculated column, no reference rows)
\* does not abort the call.
C24_AttributesIndependent ==
    Validated =>
        \A i \in 1..Len(attribute_mapping) :
            (attribute_mapping[i].source_label # ""
                /\ Alone(attribute_mapping[i]).raised = "none") =>
                    /\ raised = "none"
                    /\ SelectSeq(Records, LAMBDA r :
                            r.attribute_name = attribute_mapping[i].computed_column)
                         = Alone(attribute_mapping[i]).validation_df.rows

\* C25: of the azimuth records validate_surface_attributes produces, the export flags
\* one through |difference| > 170 (its percent error not above the threshold) only
\* if the shortest-arc distance of its two angles exceeds 170; the record of
\* calculated 350 and reference 10, 20 apart, is not flagged.
C25_FlipClauseOnlyBeyond170 ==
    (/\ op = "export_problematic_surfaces"
     /\ raised = "none"
     /\ "surface_feature_id" \in calc_df.columns) =>
        \A i \in 1..Len(returned.rows) :
            LET record == returned.rows[i]
            IN  (/\ record.attribute_name = "azimuth"
                 /\ ~PercentExceeds(record.percent_error, args.error_threshold)) =>
                    ShortestArc(record.calculated_value, record.thematic_value) > 170

\* a line of the file holds the values of the record, a null percent error as the
\* empty field
LineOf(line, record) ==
    /\ DOMAIN line = DOMAIN record
    /\ \A f \in DOMAIN record \ {"percent_error"} : line[f] = record[f]
    /\ IF record.percent_error.nan THEN line.percent_error = ""
       ELSE line.percent_error = record.percent_error

\* C26: export_problematic_surfaces writes the file only when it flags a record: the
\* file at the path then holds exactly the flagged records it returns, under the
\* column set of its input; given no records, or flagging none, it writes nothing, a
\* file already at the path stays as it was, and it returns an empty record set.
C26_FileOnlyWithFlaggedRecords ==
    [][op' = "export_problematic_surfaces" =>
         LET flagged == returned'.rows
         IN  IF flagged # <<>>
             THEN /\ output_file'.exists
                  /\ output_file'.header = validation_df.columns
                  /\ Len(output_file'.lines) = Len(flagged)
                  /\ \A i \in 1..Len(flagged) : LineOf(output_file'.lines[i], flagged[i])
             ELSE /\ output_file' = output_file
                  /\ returned' = EmptyFrame]_vars

\* C26 witness: an export that was given records and flagged none left the file of
\* an earlier run at the path as it was and returned the empty record set.
C26_Witness ==
    /\ op = "export_problematic_surfaces"
    /\ validation_df.rows # <<>>
    /\ returned = EmptyFrame
    /\ output_file = StaleFile

C28_RecordsOfRequestedSubtype ==
    op = "validate_surface_attributes" =>
        /\ \A i \in RecordIndices :
               /\ Records[i].classname = surface_type
               /\ \E k \in 1..Len(attribute_mapping) :
                      /\ attribute_mapping[k].computed_column = Records[i].attribute_name
                      /\ attribute_mapping[k].source_label # ""
        /\ \A n \in 1..Len(calc_df.rows) :
               calc_df.rows[n].classname # surface_type =>
                   \A i \in RecordIndices :
                       Records[i].surface_feature_id # calc_df.rows[n].surface_feature_id

\* C28 witness: a call for one subtype on a table with a row of that subtype and a row
\* of the other one, both with reference rows of a mapped attribute, returned a
\* record for the first row only.
C28_Witness ==
    /\ op = "validate_surface_attributes"
    /\ Len(Records) = 1
    /\ \E n \in 1..Len(calc_df.rows) :
           /\ calc_df.rows[n].classname # surface_type
           /\ \E t \in 1..Len(thematic_df.rows) :
                  /\ thematic_df.rows[t].feature_id = calc_df.rows[n].surface_feature_id
                  /\ thematic_df.rows[t].attribute_name = Records[1].attribute_name
====
